---- MODULE Spec2Model ----
(***************************************************************************)
(* Document text-extraction pipeline of Text-Extractor-Translator:         *)
(* TextExtractionService.extract_text and the stages it sequences          *)
(* (ImagePreprocessor, OCRModel, MLEnhancementModel, NLPProcessor).        *)
(*                                                                         *)
(* Text is a sequence of one-character strings.  Confidences are exact     *)
(* rationals <<numerator, denominator>> in lowest terms; the source        *)
(* computes them in binary floating point.                                 *)
(***************************************************************************)
EXTENDS Integers, Sequences, FiniteSets, TLC

(***************************************************************************)
(* Characters and character classes of Python's str and re.                *)
(***************************************************************************)
LowerSeq == <<"a", "b", "c", "d", "e", "f", "g", "h", "i", "j", "k", "l", "m", "n", "o", "p", "q", "r", "s", "t", "u", "v", "w", "x", "y", "z">>
UpperSeq == <<"A", "B", "C", "D", "E", "F", "G", "H", "I", "J", "K", "L", "M", "N", "O", "P", "Q", "R", "S", "T", "U", "V", "W", "X", "Y", "Z">>
DigitSeq == <<"0", "1", "2", "3", "4", "5", "6", "7", "8", "9">>

Range(f) == {f[i] : i \in DOMAIN f}

AsciiLower == Range(LowerSeq)
AsciiUpper == Range(UpperSeq)
AsciiDigit == Range(DigitSeq)
AsciiLetter == AsciiLower \cup AsciiUpper

\* U+2022 BULLET, U+00C2, U+00E2, U+00B4, U+0060 and U+0027 are written by code point.
Bullet == "U+2022"
ACircumflex == "U+00C2"
ACircumflexLower == "U+00E2"
AcuteAccent == "U+00B4"
Backtick == "U+0060"
Apostrophe == "U+0027"

\* \s of re and the characters str.strip() removes
Whitespace == {" ", "\t", "\n", "\r"}
\* \w of re on str: letters, digits and the underscore
WordChar == AsciiLetter \cup AsciiDigit \cup {"_", ACircumflex, ACircumflexLower}

\* str.lower() and str.upper() on one character
LowerChar(c) ==
    IF c \in AsciiUpper
    THEN LowerSeq[CHOOSE i \in DOMAIN UpperSeq : UpperSeq[i] = c]
    ELSE IF c = ACircumflex THEN ACircumflexLower ELSE c
UpperChar(c) ==
    IF c \in AsciiLower
    THEN UpperSeq[CHOOSE i \in DOMAIN LowerSeq : LowerSeq[i] = c]
    ELSE IF c = ACircumflexLower THEN ACircumflex ELSE c

str_lower(s) == [i \in DOMAIN s |-> LowerChar(s[i])]

\* s[i:] of Python, i counted from 1
From(s, i) == SubSeq(s, i, Len(s))

\* not s or not s.strip()
IsBlank(s) == \A i \in DOMAIN s : s[i] \in Whitespace

(***************************************************************************)
(* Exact rational arithmetic for confidence scores.                        *)
(***************************************************************************)
RECURSIVE GCD(_, _)
GCD(a, b) == IF b = 0 THEN a ELSE GCD(b, a % b)

Abs(x) == IF x < 0 THEN -x ELSE x

\* n/d in lowest terms, d > 0
Rat(n, d) == LET g == GCD(Abs(n), d) IN <<n \div g, d \div g>>

RZero == <<0, 1>>
ROne == <<1, 1>>
RLess(a, b) == a[1] * b[2] < b[1] * a[2]
RLeq(a, b) == a[1] * b[2] <= b[1] * a[2]
RAdd(a, b) == Rat(a[1] * b[2] + b[1] * a[2], a[2] * b[2])
\* a * p / q
RScale(a, p, q) == Rat(a[1] * p, a[2] * q)
RMin(a, b) == IF RLeq(a, b) THEN a ELSE b

RECURSIVE RSum(_)
RSum(rs) == IF rs = <<>> THEN RZero ELSE RAdd(Head(rs), RSum(Tail(rs)))

\* np.mean of a non-empty list
np_mean(rs) == RScale(RSum(rs), 1, Len(rs))

(***************************************************************************)
(* MLEnhancementModel (models/ml_enchancement.py)                          *)
(***************************************************************************)
\* common_errors[r'([0-9])([A-Za-z])'] = r'\1 \2'
RECURSIVE sub_digit_letter(_)
sub_digit_letter(s) ==
    IF Len(s) < 2 THEN s
    ELSE IF s[1] \in AsciiDigit /\ s[2] \in AsciiLetter
         THEN <<s[1], " ", s[2]>> \o sub_digit_letter(From(s, 3))
         ELSE <<s[1]>> \o sub_digit_letter(Tail(s))

\* common_errors[r'([A-Za-z])([0-9])'] = r'\1 \2'
RECURSIVE sub_letter_digit(_)
sub_letter_digit(s) ==
    IF Len(s) < 2 THEN s
    ELSE IF s[1] \in AsciiLetter /\ s[2] \in AsciiDigit
         THEN <<s[1], " ", s[2]>> \o sub_letter_digit(From(s, 3))
         ELSE <<s[1]>> \o sub_letter_digit(Tail(s))

\* the l/I rule with the class [a-z] in place of [^a-z]
RECURSIVE sub_l_to_I_no_caret(_)
sub_l_to_I_no_caret(s) ==
    IF Len(s) < 2 THEN s
    ELSE IF s[1] = "l" /\ s[2] \in AsciiLower
         THEN <<"I", s[2]>> \o sub_l_to_I_no_caret(From(s, 3))
         ELSE <<s[1]>> \o sub_l_to_I_no_caret(Tail(s))

\* the l/I rule written r'l([^a-z]|$)': an "l" that ends the text matches too
RECURSIVE sub_l_to_I_at_end(_)
sub_l_to_I_at_end(s) ==
    IF s = <<>> THEN s
    ELSE IF s = <<"l">> THEN <<"I">>
    ELSE IF Len(s) >= 2 /\ s[1] = "l" /\ s[2] \notin AsciiLower
         THEN <<"I", s[2]>> \o sub_l_to_I_at_end(From(s, 3))
         ELSE <<s[1]>> \o sub_l_to_I_at_end(Tail(s))

\* common_errors[r'l([^a-z])'] = r'I\1'
RECURSIVE sub_l_to_I(_)
sub_l_to_I(s) ==
    IF Len(s) < 2 THEN s
    ELSE IF s[1] = "l" /\ s[2] \notin AsciiLower
         THEN <<"I", s[2]>> \o sub_l_to_I(From(s, 3))
         ELSE <<s[1]>> \o sub_l_to_I(Tail(s))

\* common_errors[r'(\w)\.(\w)'] = r'\1. \2'
RECURSIVE sub_merged_sentences(_)
sub_merged_sentences(s) ==
    IF Len(s) < 3 THEN s
    ELSE IF s[1] \in WordChar /\ s[2] = "." /\ s[3] \in WordChar
         THEN <<s[1], ".", " ", s[3]>> \o sub_merged_sentences(From(s, 4))
         ELSE <<s[1]>> \o sub_merged_sentences(Tail(s))

\* length of the whitespace run s starts with
RECURSIVE WhitespaceRun(_)
WhitespaceRun(s) ==
    IF s # <<>> /\ s[1] \in Whitespace THEN 1 + WhitespaceRun(Tail(s)) ELSE 0

\* common_errors[r'\s{2,}'] = ' ' (and the same entry of NLPProcessor.patterns)
RECURSIVE sub_spaces(_)
sub_spaces(s) ==
    IF s = <<>> THEN s
    ELSE LET k == WhitespaceRun(s)
         IN  IF k >= 2
             THEN <<" ">> \o sub_spaces(From(s, k + 1))
             ELSE <<s[1]>> \o sub_spaces(Tail(s))

\* char_replacements: the entries with old != new, str.replace of each in turn
replace_zero(s) == [i \in DOMAIN s |-> IF s[i] = "0" THEN "O" ELSE s[i]]
replace_backtick(s) == [i \in DOMAIN s |-> IF s[i] = Backtick THEN Apostrophe ELSE s[i]]
RECURSIVE replace_acute(_)
replace_acute(s) ==
    IF Len(s) < 2 THEN s
    ELSE IF s[1] = ACircumflex /\ s[2] = AcuteAccent
         THEN <<Apostrophe>> \o replace_acute(From(s, 3))
         ELSE <<s[1]>> \o replace_acute(Tail(s))

\* char_replacements whose entry for 'l' maps it to 'I'
char_replacements_normalize_l(s) ==
    LET t == replace_acute(replace_backtick(replace_zero(s)))
    IN  [i \in DOMAIN t |-> IF t[i] = "l" THEN "I" ELSE t[i]]

char_replacements(s) == replace_acute(replace_backtick(replace_zero(s)))

\* the loop over common_errors.items(), in insertion order
common_errors(s) ==
    sub_spaces(sub_merged_sentences(sub_l_to_I(sub_letter_digit(sub_digit_letter(s)))))

_apply_rule_based_corrections(text) == char_replacements(common_errors(text))

\* the values enhanced_text takes with the letter/digit rule before the
\* digit/letter rule
correction_steps_letter_digit_first(text) ==
    LET s1 == sub_letter_digit(text)
        s2 == sub_digit_letter(s1)
        s3 == sub_l_to_I(s2)
        s4 == sub_merged_sentences(s3)
        s5 == sub_spaces(s4)
    IN  <<text, s1, s2, s3, s4, s5, char_replacements(s5)>>

\* the values enhanced_text takes in _apply_rule_based_corrections: the
\* argument, the value after each pass of the loop over common_errors, and the
\* value after the loop over char_replacements
correction_steps(text) ==
    LET s1 == sub_digit_letter(text)
        s2 == sub_letter_digit(s1)
        s3 == sub_l_to_I(s2)
        s4 == sub_merged_sentences(s3)
        s5 == sub_spaces(s4)
    IN  <<text, s1, s2, s3, s4, s5, char_replacements(s5)>>

\* the placeholder returns its input; a loaded model may raise instead
_apply_ml_corrections(text) == text

\* enhance_text without the min(1.0, ...) clamps
enhance_text_unclamped(text, confidence, initialized, ml_raises) ==
    IF IsBlank(text) THEN <<text, confidence, FALSE>>
    ELSE LET enhanced_text == _apply_rule_based_corrections(text)
         IN  IF initialized /\ RLess(confidence, Rat(85, 100))
             THEN IF ml_raises
                  THEN <<enhanced_text, confidence, TRUE>>
                  ELSE <<_apply_ml_corrections(enhanced_text),
                         RScale(confidence, 115, 100), TRUE>>
             ELSE <<enhanced_text, RScale(confidence, 105, 100), FALSE>>

\* enhance_text without the early return on blank text
enhance_text_no_blank_guard(text, confidence, initialized, ml_raises) ==
    LET enhanced_text == _apply_rule_based_corrections(text)
    IN  IF initialized /\ RLess(confidence, Rat(85, 100))
        THEN IF ml_raises
             THEN <<enhanced_text, confidence, TRUE>>
             ELSE <<_apply_ml_corrections(enhanced_text),
                    RMin(ROne, RScale(confidence, 115, 100)), TRUE>>
        ELSE <<enhanced_text, RMin(ROne, RScale(confidence, 105, 100)), FALSE>>

\* enhance_text with `confidence <= 0.85` as the gate of the ML step
enhance_text_inclusive_gate(text, confidence, initialized, ml_raises) ==
    IF IsBlank(text) THEN <<text, confidence, FALSE>>
    ELSE LET enhanced_text == _apply_rule_based_corrections(text)
         IN  IF initialized /\ RLeq(confidence, Rat(85, 100))
             THEN IF ml_raises
                  THEN <<enhanced_text, confidence, TRUE>>
                  ELSE <<_apply_ml_corrections(enhanced_text),
                         RMin(ROne, RScale(confidence, 115, 100)), TRUE>>
             ELSE <<enhanced_text, RMin(ROne, RScale(confidence, 105, 100)), FALSE>>

\* enhance_text whose except clause falls back to the small boost
enhance_text_boost_on_failure(text, confidence, initialized, ml_raises) ==
    IF IsBlank(text) THEN <<text, confidence, FALSE>>
    ELSE LET enhanced_text == _apply_rule_based_corrections(text)
         IN  IF initialized /\ RLess(confidence, Rat(85, 100))
             THEN IF ml_raises
                  THEN <<enhanced_text,
                         RMin(ROne, RScale(confidence, 105, 100)), TRUE>>
                  ELSE <<_apply_ml_corrections(enhanced_text),
                         RMin(ROne, RScale(confidence, 115, 100)), TRUE>>
             ELSE <<enhanced_text, RMin(ROne, RScale(confidence, 105, 100)), FALSE>>

\* enhance_text that gates the ML step on the confidence alone
enhance_text_ignore_initialized(text, confidence, initialized, ml_raises) ==
    IF IsBlank(text) THEN <<text, confidence, FALSE>>
    ELSE LET enhanced_text == _apply_rule_based_corrections(text)
         IN  IF RLess(confidence, Rat(85, 100))
             THEN IF ml_raises
                  THEN <<enhanced_text, confidence, TRUE>>
                  ELSE <<_apply_ml_corrections(enhanced_text),
                         RMin(ROne, RScale(confidence, 115, 100)), TRUE>>
             ELSE <<enhanced_text, RMin(ROne, RScale(confidence, 105, 100)), FALSE>>

\* enhance_text whose successful ML step lowers the confidence by 5%
enhance_text_ml_penalty(text, confidence, initialized, ml_raises) ==
    IF IsBlank(text) THEN <<text, confidence, FALSE>>
    ELSE LET enhanced_text == _apply_rule_based_corrections(text)
         IN  IF initialized /\ RLess(confidence, Rat(85, 100))
             THEN IF ml_raises
                  THEN <<enhanced_text, confidence, TRUE>>
                  ELSE <<_apply_ml_corrections(enhanced_text),
                         RMin(ROne, RScale(confidence, 95, 100)), TRUE>>
             ELSE <<enhanced_text, RMin(ROne, RScale(confidence, 105, 100)), FALSE>>

\* enhance_text(text, confidence) of a model whose flag is `initialized`;
\* ml_raises: _apply_ml_corrections raises in this call.
\* <<text, confidence, whether _apply_ml_corrections was called>>
enhance_text(text, confidence, initialized, ml_raises) ==
    IF IsBlank(text) THEN <<text, confidence, FALSE>>
    ELSE LET enhanced_text == _apply_rule_based_corrections(text)
         IN  IF initialized /\ RLess(confidence, Rat(85, 100))
             THEN IF ml_raises
                  THEN <<enhanced_text, confidence, TRUE>>
                  ELSE <<_apply_ml_corrections(enhanced_text),
                         RMin(ROne, RScale(confidence, 115, 100)), TRUE>>
             ELSE <<enhanced_text, RMin(ROne, RScale(confidence, 105, 100)), FALSE>>

(***************************************************************************)
(* NLPProcessor (services/nlp_processing.py)                               *)
(***************************************************************************)
\* lengths of the runs of \d and of \w that s starts with
RECURSIVE DigitRun(_)
DigitRun(s) ==
    IF s # <<>> /\ s[1] \in AsciiDigit THEN 1 + DigitRun(Tail(s)) ELSE 0
RECURSIVE WordRun(_)
WordRun(s) ==
    IF s # <<>> /\ s[1] \in WordChar THEN 1 + WordRun(Tail(s)) ELSE 0

\* patterns[0]: (r'(\d+)\.(\d+)', r'\1.\2')
RECURSIVE sub_decimal(_)
sub_decimal(s) ==
    IF s = <<>> THEN s
    ELSE LET j == DigitRun(s)
             k == IF j >= 1 /\ Len(s) >= j + 2 /\ s[j + 1] = "."
                  THEN DigitRun(From(s, j + 2)) ELSE 0
         IN  IF k >= 1
             THEN SubSeq(s, 1, j) \o <<".">> \o SubSeq(s, j + 2, j + 1 + k)
                  \o sub_decimal(From(s, j + 2 + k))
             ELSE <<s[1]>> \o sub_decimal(Tail(s))

\* patterns[1] and patterns[2]: (r'(\w+)\s+P\s+(\w+)', r'\1P \2') for P = , and .
RECURSIVE sub_punct_spacing(_, _)
sub_punct_spacing(s, p) ==
    IF s = <<>> THEN s
    ELSE LET j == WordRun(s)
             w1 == IF j >= 1 THEN WhitespaceRun(From(s, j + 1)) ELSE 0
             isP == w1 >= 1 /\ Len(s) >= j + w1 + 1 /\ s[j + w1 + 1] = p
             w2 == IF isP THEN WhitespaceRun(From(s, j + w1 + 2)) ELSE 0
             k == IF w2 >= 1 THEN WordRun(From(s, j + w1 + w2 + 2)) ELSE 0
         IN  IF k >= 1
             THEN SubSeq(s, 1, j) \o <<p, " ">>
                  \o SubSeq(s, j + w1 + w2 + 2, j + w1 + w2 + 1 + k)
                  \o sub_punct_spacing(From(s, j + w1 + w2 + 2 + k), p)
             ELSE <<s[1]>> \o sub_punct_spacing(Tail(s), p)

\* patterns[4]: (r'([a-z])([A-Z])', r'\1 \2')
RECURSIVE sub_lower_upper(_)
sub_lower_upper(s) ==
    IF Len(s) < 2 THEN s
    ELSE IF s[1] \in AsciiLower /\ s[2] \in AsciiUpper
         THEN <<s[1], " ", s[2]>> \o sub_lower_upper(From(s, 3))
         ELSE <<s[1]>> \o sub_lower_upper(Tail(s))

\* the loop over self.patterns
_fix_patterns(text) ==
    sub_lower_upper(sub_spaces(sub_punct_spacing(
        sub_punct_spacing(sub_decimal(text), ","), ".")))

\* str.split(): the whitespace-separated words of s
RECURSIVE str_split(_)
str_split(s) ==
    IF s = <<>> THEN <<>>
    ELSE IF s[1] \in Whitespace THEN str_split(Tail(s))
    ELSE LET n == CHOOSE n \in 1..Len(s) :
                      /\ \A i \in 1..n : s[i] \notin Whitespace
                      /\ (n = Len(s) \/ s[n + 1] \in Whitespace)
         IN  <<SubSeq(s, 1, n)>> \o str_split(From(s, n + 1))

\* sep.join(parts)
RECURSIVE str_join(_, _)
str_join(sep, parts) ==
    IF parts = <<>> THEN <<>>
    ELSE IF Len(parts) = 1 THEN parts[1]
    ELSE parts[1] \o sep \o str_join(sep, Tail(parts))

\* str.capitalize()
str_capitalize(w) ==
    [i \in DOMAIN w |-> IF i = 1 THEN UpperChar(w[i]) ELSE LowerChar(w[i])]

_ensure_proper_case(text) ==
    LET words == str_split(text)
    IN  str_join(<<" ">>, [i \in DOMAIN words |-> str_capitalize(words[i])])

\* old occurs in s at position 1
StartsWith(s, old) == Len(s) >= Len(old) /\ SubSeq(s, 1, Len(old)) = old

\* s.replace(old, new) for a non-empty old
RECURSIVE str_replace(_, _, _)
str_replace(s, old, new) ==
    IF s = <<>> THEN s
    ELSE IF StartsWith(s, old)
         THEN new \o str_replace(From(s, Len(old) + 1), old, new)
         ELSE <<s[1]>> \o str_replace(Tail(s), old, new)

Contains(s, old) == \E i \in 1..Len(s) : StartsWith(From(s, i), old)

\* The linguistic model is an external collaborator: self.nlp(text).ents is
\* modelled as the entries of a fixed list of known entities found in text.
KnownEntities ==
    << [text |-> <<"p", "a", "r", "i", "s">>, label_ |-> "GPE"],
       [text |-> <<"j", "o", "h", "n", " ", "s", "m", "i", "t", "h">>, label_ |-> "PERSON"],
       [text |-> <<"m", "o", "n", "d", "a", "y">>, label_ |-> "DATE"] >>

doc_ents(text) ==
    SelectSeq(KnownEntities, LAMBDA e : Contains(text, e.text))

\* the loop over doc.ents (enable_ner is True as TextExtractionService builds it)
RECURSIVE recase_entities(_, _)
recase_entities(text, ents) ==
    IF ents = <<>> THEN text
    ELSE LET ent == Head(ents)
         IN  recase_entities(
                 IF ent.label_ \in {"PERSON", "ORG", "GPE", "LOC"}
                 THEN str_replace(text, ent.text, _ensure_proper_case(ent.text))
                 ELSE text,
                 Tail(ents))

_apply_spacy_processing(text) == recase_entities(text, doc_ents(text))

\* re.sub(r'(?<!\n)\n(?!\n)', ' ', text)
sub_single_newline(s) ==
    [i \in DOMAIN s |->
        IF /\ s[i] = "\n"
           /\ (i = 1 \/ s[i - 1] # "\n")
           /\ (i = Len(s) \/ s[i + 1] # "\n")
        THEN " " ELSE s[i]]

RECURSIVE NewlineRun(_)
NewlineRun(s) ==
    IF s # <<>> /\ s[1] = "\n" THEN 1 + NewlineRun(Tail(s)) ELSE 0

\* re.sub(r'\n{3,}', '\n\n', text)
RECURSIVE sub_newlines(_)
sub_newlines(s) ==
    IF s = <<>> THEN s
    ELSE LET k == NewlineRun(s)
         IN  IF k >= 3
             THEN <<"\n", "\n">> \o sub_newlines(From(s, k + 1))
             ELSE <<s[1]>> \o sub_newlines(Tail(s))

\* [\s BULLET -]
BulletPadding == Whitespace \cup {Bullet, "-"}

\* re.sub(r'(?<=\n)[\s BULLET -]*(?=BULLET)', '', text), scanning from index i
RECURSIVE sub_bullets(_, _)
sub_bullets(s, i) ==
    IF i > Len(s) THEN <<>>
    ELSE LET ends == {k \in i..Len(s) :
                         /\ s[k] = Bullet
                         /\ \A m \in i..k : s[m] \in BulletPadding}
         IN  IF i > 1 /\ s[i - 1] = "\n" /\ ends # {}
             THEN LET k == CHOOSE k \in ends : \A m \in ends : m <= k
                  IN  <<s[k]>> \o sub_bullets(s, k + 1)
             ELSE <<s[i]>> \o sub_bullets(s, i + 1)

_fix_paragraphs(text) ==
    sub_bullets(sub_newlines(sub_single_newline(text)), 1)

\* process_text(text) of a processor whose spaCy model is loaded or not;
\* nlp_raises: _apply_spacy_processing raises in this call
process_text(text, nlp_loaded, nlp_raises) ==
    IF IsBlank(text) THEN text
    ELSE LET fixed == _fix_patterns(text)
             processed_text == IF nlp_loaded /\ ~nlp_raises
                               THEN _apply_spacy_processing(fixed)
                               ELSE fixed
         IN  _fix_paragraphs(processed_text)

\* process_text in which a failing entity pass leaves its partly re-cased text
\* in processed_text
process_text_steps_keep_partial(text, loaded, raise_after) ==
    IF IsBlank(text) THEN <<text>>
    ELSE LET fixed == _fix_patterns(text)
             ents == doc_ents(fixed)
             local == IF ~loaded THEN fixed
                      ELSE IF raise_after >= 0
                           THEN recase_entities(fixed, SubSeq(ents, 1, raise_after))
                           ELSE recase_entities(fixed, ents)
         IN  <<text, fixed, local, local, _fix_paragraphs(local)>>

\* The values process_text goes through on non-blank text: its argument,
\* processed_text after _fix_patterns, the local `text` of
\* _apply_spacy_processing when that call ends (by its return, or by an
\* exception raised after raise_after entities were handled; raise_after = -1:
\* no exception), processed_text after the try, and the value returned.
\* On blank text only the argument, which is returned.
process_text_steps(text, loaded, raise_after) ==
    IF IsBlank(text) THEN <<text>>
    ELSE LET fixed == _fix_patterns(text)
             ents == doc_ents(fixed)
             local == IF ~loaded THEN fixed
                      ELSE IF raise_after >= 0
                           THEN recase_entities(fixed, SubSeq(ents, 1, raise_after))
                           ELSE recase_entities(fixed, ents)
             processed_text == IF loaded /\ raise_after < 0 THEN local ELSE fixed
         IN  <<text, fixed, local, processed_text, _fix_paragraphs(processed_text)>>

(***************************************************************************)
(* ImagePreprocessor (services/image_preprocessing.py).  An image is       *)
(* abstracted to what the stages read from it: its blur and contrast       *)
(* metrics and the contours of its binarisation, each [area, angle].       *)
(***************************************************************************)
\* the tier decision with >= in place of > in its first test
_determine_enhancement_level_inclusive(blur, contrast) ==
    IF blur >= 100 /\ contrast >= 50 THEN "low"
    ELSE IF blur > 50 /\ contrast > 30 THEN "medium"
    ELSE "high"

\* blur = Laplacian variance, contrast = standard deviation of the image
_determine_enhancement_level(blur, contrast) ==
    IF blur > 100 /\ contrast > 50 THEN "low"
    ELSE IF blur > 50 /\ contrast > 30 THEN "medium"
    ELSE "high"

\* the loop over contours with `<= 100` as the test for a small contour
RECURSIVE collect_angles_exclusive(_)
collect_angles_exclusive(contours) ==
    IF contours = <<>> THEN <<>>
    ELSE LET c == Head(contours)
         IN  IF c.area <= 100 THEN collect_angles_exclusive(Tail(contours))
             ELSE <<IF c.angle < -45 THEN 90 + c.angle ELSE c.angle>>
                  \o collect_angles_exclusive(Tail(contours))

\* the body of the loop over contours in deskew: the angles it collects
RECURSIVE collect_angles(_)
collect_angles(contours) ==
    IF contours = <<>> THEN <<>>
    ELSE LET c == Head(contours)
         IN  IF c.area < 100 THEN collect_angles(Tail(contours))
             ELSE <<IF c.angle < -45 THEN 90 + c.angle ELSE c.angle>>
                  \o collect_angles(Tail(contours))

\* the k-th smallest element of a non-empty list of integers
KthSmallest(xs, k) ==
    CHOOSE x \in Range(xs) :
        /\ Cardinality({i \in DOMAIN xs : xs[i] < x}) < k
        /\ Cardinality({i \in DOMAIN xs : xs[i] <= x}) >= k

\* np.median of a non-empty list
np_median(xs) ==
    LET n == Len(xs)
    IN  IF n % 2 = 1 THEN Rat(KthSmallest(xs, (n + 1) \div 2), 1)
        ELSE Rat(KthSmallest(xs, n \div 2) + KthSmallest(xs, n \div 2 + 1), 2)

\* median_angle of deskew
median_angle(contours) ==
    LET angles == collect_angles(contours)
    IN  IF angles # <<>> THEN np_median(angles) ELSE RZero

(***************************************************************************)
(* OCRModel (models/ocr_model.py).  data is the answer of                  *)
(* pytesseract.image_to_data: a list of [text, conf].                      *)
(***************************************************************************)
\* [word for word in data['text'] if word.strip()]
RECURSIVE nonblank_words(_)
nonblank_words(data) ==
    IF data = <<>> THEN <<>>
    ELSE IF IsBlank(Head(data).text) THEN nonblank_words(Tail(data))
    ELSE <<Head(data).text>> \o nonblank_words(Tail(data))

\* the confidence filter without `conf != -1`
RECURSIVE valid_confidences_keep_sentinel(_)
valid_confidences_keep_sentinel(data) ==
    IF data = <<>> THEN <<>>
    ELSE IF ~IsBlank(Head(data).text)
         THEN <<Rat(Head(data).conf, 1)>>
              \o valid_confidences_keep_sentinel(Tail(data))
         ELSE valid_confidences_keep_sentinel(Tail(data))

\* [conf for conf, text in zip(...) if text.strip() and conf != -1]
RECURSIVE valid_confidences(_)
valid_confidences(data) ==
    IF data = <<>> THEN <<>>
    ELSE IF ~IsBlank(Head(data).text) /\ Head(data).conf # -1
         THEN <<Rat(Head(data).conf, 1)>> \o valid_confidences(Tail(data))
         ELSE valid_confidences(Tail(data))

\* extract_text_from_image without the division by 100
extract_text_from_image_percent(data) ==
    LET full_text == str_join(<<" ">>, nonblank_words(data))
        confidences == valid_confidences(data)
        confidence_score == IF confidences # <<>>
                            THEN np_mean(confidences)
                            ELSE RZero
    IN  <<full_text, confidence_score>>

\* <<full_text, confidence_score>>
extract_text_from_image(data) ==
    LET full_text == str_join(<<" ">>, nonblank_words(data))
        confidences == valid_confidences(data)
        confidence_score == IF confidences # <<>>
                            THEN RScale(np_mean(confidences), 1, 100)
                            ELSE RZero
    IN  <<full_text, confidence_score>>

\* page.extract_text() of a page without a text layer
NoText == <<"None">>

\* `text` alone as the test, without `text.strip()`
HasNativeText_truthy(native) == native # NoText /\ native # <<>>

\* `text and text.strip()` for the native text of a page
HasNativeText(native) == native # NoText /\ ~IsBlank(native)

\* one iteration of the loop over pdf.pages: <<page text, page confidence>>
pdf_page_result(native, data) ==
    IF HasNativeText(native) THEN <<native, Rat(95, 100)>>
    ELSE extract_text_from_image(data)

\* the page texts joined by one newline
pdf_combine_single_newline(texts, scores) ==
    <<str_join(<<"\n">>, texts),
      IF scores # <<>> THEN np_mean(scores) ELSE RZero>>

\* the two lines after the loop: <<full_text, avg_confidence>>
pdf_combine(texts, scores) ==
    <<str_join(<<"\n", "\n">>, texts),
      IF scores # <<>> THEN np_mean(scores) ELSE RZero>>

(***************************************************************************)
(* TextExtractionService (services/text_extraction.py)                     *)
(***************************************************************************)
\* largest index of c in s, 0 when c does not occur (str.rfind, from 1)
RFind(s, c) ==
    LET at == {i \in DOMAIN s : s[i] = c}
    IN  IF at = {} THEN 0 ELSE CHOOSE i \in at : \A j \in at : j <= i

\* os.path.splitext(p)[1]
splitext_ext(p) ==
    LET sepIndex == RFind(p, "/")
        dotIndex == RFind(p, ".")
    IN  IF /\ dotIndex > sepIndex
           /\ \E i \in (sepIndex + 1)..(dotIndex - 1) : p[i] # "."
        THEN From(p, dotIndex)
        ELSE <<>>

ImageExtensions ==
    {<<".", "p", "n", "g">>, <<".", "j", "p", "g">>, <<".", "j", "p", "e", "g">>, <<".", "b", "m", "p">>, <<".", "t", "i", "f", "f">>, <<".", "g", "i", "f">>}

\* the classification with 'image' as its default branch
_determine_file_type_default_image(path) ==
    LET ext == str_lower(splitext_ext(path))
    IN  IF ext = <<".", "p", "d", "f">> THEN "pdf" ELSE "image"

_determine_file_type(path) ==
    LET ext == str_lower(splitext_ext(path))
    IN  IF ext = <<".", "p", "d", "f">> THEN "pdf"
        ELSE IF ext \in ImageExtensions THEN "image"
        ELSE "unknown"

\* the keys of self.file_handlers
file_handlers == {"pdf", "image"}

UnsupportedFileType == <<"U", "n", "s", "u", "p", "p", "o", "r", "t", "e", "d", " ", "f", "i", "l", "e", " ", "t", "y", "p", "e">>
ImageProcessingFailed == <<"I", "m", "a", "g", "e", " ", "p", "r", "o", "c", "e", "s", "s", "i", "n", "g", " ", "f", "a", "i", "l", "e", "d">>

(***************************************************************************)
(* TranslationModel (models/translation_model.py) and TranslationService   *)
(* (services/translation_service.py).  The clients are external: env holds  *)
(* what they answer in one call (detect: the language detection returns, or  *)
(* "raises"; deepl_raises, google_raises: the translation call raises).      *)
(* A result is the text returned and the list of client calls made.          *)
(***************************************************************************)
language_mapping ==
    [l \in {"en", "es", "fr", "de", "it", "pt", "nl", "ru", "zh", "ja"} |->
        [google |-> l,
         deepl |-> CASE l = "en" -> "EN" [] l = "es" -> "ES" [] l = "fr" -> "FR"
                     [] l = "de" -> "DE" [] l = "it" -> "IT" [] l = "pt" -> "PT"
                     [] l = "nl" -> "NL" [] l = "ru" -> "RU" [] l = "zh" -> "ZH"
                     [] l = "ja" -> "JA"]]

\* what a client returns for text: the service, the target code, the text
deepl_translate_text(text, target) == <<"deepl", target>> \o text
google_translate(text, target) == <<"google", target>> \o text

\* TranslationModel.detect_language
detect_language(text, google_client, env) ==
    IF IsBlank(text) THEN [lang |-> "en", called |-> <<>>]
    ELSE [lang |-> IF env.detect = "raises" THEN "en" ELSE env.detect,
          called |-> IF google_client THEN <<"google.detect_language">>
                     ELSE <<"langdetect.detect">>]

\* TranslationModel.translate with the Google block before the DeepL block
translate_google_first(text, source_lang, target_lang, deepl_client, google_client, env) ==
    IF IsBlank(text) THEN [text |-> text, called |-> <<>>]
    ELSE LET d == IF source_lang = "auto"
                  THEN detect_language(text, google_client, env)
                  ELSE [lang |-> source_lang, called |-> <<>>]
         IN  IF d.lang = target_lang THEN [text |-> text, called |-> d.called]
             ELSE LET after_google ==
                          d.called \o (IF google_client THEN <<"google.translate">>
                                                       ELSE <<>>)
                      deepl_target ==
                          IF target_lang \in DOMAIN language_mapping
                          THEN language_mapping[target_lang].deepl ELSE "None"
                  IN  IF google_client /\ ~env.google_raises
                      THEN [text |-> google_translate(text, target_lang),
                            called |-> after_google]
                      ELSE IF deepl_client /\ deepl_target # "None"
                      THEN [text |-> IF env.deepl_raises THEN text
                                     ELSE deepl_translate_text(text, deepl_target),
                            called |-> after_google \o <<"deepl.translate_text">>]
                      ELSE [text |-> text, called |-> after_google]

\* TranslationModel.translate
translate(text, source_lang, target_lang, deepl_client, google_client, env) ==
    IF IsBlank(text) THEN [text |-> text, called |-> <<>>]
    ELSE LET d == IF source_lang = "auto"
                  THEN detect_language(text, google_client, env)
                  ELSE [lang |-> source_lang, called |-> <<>>]
         IN  IF d.lang = target_lang THEN [text |-> text, called |-> d.called]
             ELSE LET deepl_target ==
                          IF target_lang \in DOMAIN language_mapping
                          THEN language_mapping[target_lang].deepl ELSE "None"
                      try_deepl == deepl_client /\ deepl_target # "None"
                      after_deepl ==
                          d.called \o (IF try_deepl THEN <<"deepl.translate_text">>
                                                   ELSE <<>>)
                  IN  IF try_deepl /\ ~env.deepl_raises
                      THEN [text |-> deepl_translate_text(text, deepl_target),
                            called |-> after_deepl]
                      ELSE IF google_client
                      THEN [text |-> IF env.google_raises THEN text
                                     ELSE google_translate(text, target_lang),
                            called |-> after_deepl \o <<"google.translate">>]
                      ELSE [text |-> text, called |-> after_deepl]

\* TranslationService.translate
service_translate(text, source_lang, target_lang, deepl_client, google_client, env) ==
    IF IsBlank(text) THEN [text |-> text, called |-> <<>>]
    ELSE LET d == IF source_lang = "auto"
                  THEN detect_language(text, google_client, env)
                  ELSE [lang |-> source_lang, called |-> <<>>]
         IN  IF d.lang = target_lang THEN [text |-> text, called |-> d.called]
             ELSE LET r == translate(text, d.lang, target_lang, deepl_client,
                                     google_client, env)
                  IN  [text |-> r.text, called |-> d.called \o r.called]

(***************************************************************************)
(* Bounds and the inputs the environment supplies.                         *)
(***************************************************************************)
MaxWords == 3
MaxPages == 2
MaxPageWords == 1
MaxContours == 2
MaxCalls == 3
MaxProcs == 2
MaxRuleLen == 2
MaxNlpLen == 3

\* all sequences over S of length at most n
SeqsUpTo(S, n) == UNION {[1..k -> S] : k \in 0..n}

FilePaths ==
    { <<"a", ".", "p", "d", "f">>, <<"b", ".", "P", "D", "F">>, <<"c", ".", "p", "n", "g">>, <<"d", ".", "J", "P", "G">>, <<"e", ".", "d", "o", "c", "x">>, <<"f">>, <<".", "g", "i", "f">> }

\* answers of the recognition backend for one word
WordTokens ==
    { [text |-> <<"H", "e", "l", "l", "o">>, conf |-> 90], [text |-> <<>>, conf |-> -1],
      [text |-> <<"W", "o", "r", "l", "d">>, conf |-> 80], [text |-> <<" ">>, conf |-> 95],
      [text |-> <<"l", "5">>, conf |-> 100], [text |-> <<"x">>, conf |-> -1] }
PageTokens ==
    { [text |-> <<"S", "c", "a", "n">>, conf |-> 60], [text |-> <<>>, conf |-> -1] }

\* page.extract_text() of a PDF page
NativeTexts == { NoText, <<" ">>, <<"H", "i">>, <<"a", ".", "b", "\n", "p", "a", "r", "i", "s">> }

\* concurrent callers of the shared service, the files they submit, and what
\* the file handler returns for each kind when it returns a recognition
Procs == 1..MaxProcs
ConcurrentPaths == { <<"a", ".", "p", "d", "f">>, <<"c", ".", "p", "n", "g">> }
HandlerAnswers(kind) ==
    IF kind = "image"
    THEN { <<<<"l", "5", ".", "b">>, Rat(1, 2)>> }
    ELSE { <<<<"p", "a", "r", "i", "s">>, Rat(95, 100)>> }

\* texts given to _apply_rule_based_corrections: every text of at most MaxRuleLen
\* characters over RuleAlphabet, and some longer ones
RuleAlphabet == {"l", "a", "0", ".", " ", Backtick, ACircumflex, AcuteAccent}
FixedInput == <<"l", "5", "H", "e", "l", "l", "o", ".", "W", "o", "r", "l", "d">>
RuleTexts ==
    SeqsUpTo(RuleAlphabet, MaxRuleLen)
    \cup { FixedInput, <<"a", ".", "b", ".", "c">>, <<"O", ";", "I", "0", Backtick, ACircumflex, AcuteAccent, "l", "a">>, <<"l", " ", "5", "l", "a", " ", "l">> }

\* texts given to process_text: every text of at most MaxNlpLen characters over
\* NlpAlphabet, and some longer ones
NlpAlphabet == {"a", "\n", " "}
NlpTexts ==
    SeqsUpTo(NlpAlphabet, MaxNlpLen)
    \cup { <<"a", "\n", "\n", "\n", "b">>, <<"a", "\n", "b", "\n", "\n", "c">>, <<"p", "a", "r", "i", "s", " ", "j", "o", "h", "n", " ", "s", "m", "i", "t", "h">> }

\* arguments of translate, and the answers of the clients
TranslateTexts == { <<>>, <<" ">>, <<"H", "i">> }
SourceLangs == {"auto", "en", "fr"}
TargetLangs == {"en", "fr", "xx"}
TranslateEnvs ==
    [detect : {"en", "fr", "raises"}, deepl_raises : BOOLEAN, google_raises : BOOLEAN]

QualityBlur == {50, 51, 100, 101}
QualityContrast == {30, 31, 50, 51}

Contours ==
    { [area |-> 99, angle |-> -10], [area |-> 100, angle |-> -60],
      [area |-> 150, angle |-> -45], [area |-> 200, angle |-> 10] }

\* arguments of direct enhance_text calls
SampleTexts ==
    { <<>>, <<" ">>, <<"\n", "\n">>, <<"H", "e", "l", "l", "o">>, <<"l", "5", "H", "e", "l", "l", "o", ".", "W", "o", "r", "l", "d">>, <<"a", ".", "b", ".", "c">>, <<"0", Backtick>> }
SampleConfidences ==
    { Rat(0, 1), Rat(50, 100), Rat(84, 100), Rat(85, 100), Rat(90, 100), Rat(96, 100),
      Rat(100, 100) }

(***************************************************************************)
(* State.                                                                  *)
(***************************************************************************)
VARIABLES
    ml_model,     \* TextExtractionService.ml_model: NoModel or [initialized]
    nlp_loaded,   \* NLPProcessor.nlp is a loaded model
    pc,           \* where the current call stands
    file_path,    \* arguments of extract_text
    enhance,
    file_type,    \* local of extract_text
    img,          \* locals of _handle_image and of the stages it calls
    pdf,          \* locals of extract_text_from_pdf
    handled,      \* the pair the file handler returned
    text,         \* the pair the call holds, and returns when pc is "done"
    confidence,
    calls,        \* the collaborators invoked by the current call, in order
    direct,       \* arguments of the last direct enhance_text call, and their number
    procs,        \* per concurrent caller: the locals of its extract_text call
    steps         \* a direct _apply_rule_based_corrections call: its argument,
                  \* the values of enhanced_text, and whether it was run again

\* the variables of the single caller
sequential_vars == <<pc, file_path, enhance, file_type, img, pdf, handled, text,
                     confidence, calls, direct, steps>>

vars == <<ml_model, nlp_loaded, pc, file_path, enhance, file_type, img, pdf,
          handled, text, confidence, calls, direct, procs, steps>>

NoModel == [present |-> FALSE, initialized |-> FALSE]
NoPair == <<NoText, RZero>>
NoImage == [stage |-> "none", blur |-> 0, contrast |-> 0, enhance_level |-> "none",
            contours |-> <<>>, median_angle |-> RZero, rotated |-> FALSE,
            data |-> <<>>]
NoPdf == [open |-> FALSE, n_pages |-> 0, pages |-> <<>>,
          extracted_texts |-> <<>>, confidence_scores |-> <<>>]
NoDirect == [n_calls |-> 0, text |-> <<>>, confidence |-> RZero,
             initialized |-> FALSE, ml_raises |-> FALSE, ml_called |-> FALSE]

\* no call is in progress
Idle == pc = "idle"
NoSteps == [text |-> <<>>, trace |-> <<>>, again |-> FALSE]

\* a caller outside any call.  seen: the shared objects as they were when the
\* call began; overlapped: another call was in flight when this one finished.
NoProc == [pc |-> "idle", file_path |-> <<>>, enhance |-> FALSE,
           overlapped |-> FALSE,
           seen |-> [ml_model |-> NoModel, nlp_loaded |-> FALSE],
           handled |-> NoPair, ml_raises |-> FALSE, nlp_raises |-> FALSE,
           text |-> <<>>, confidence |-> RZero]

\* The services as app.py or another client builds them: the enhancement model
\* absent, present without a loaded model, or present and initialized.
Init ==
    /\ ml_model \in {NoModel, [present |-> TRUE, initialized |-> FALSE],
                     [present |-> TRUE, initialized |-> TRUE]}
    /\ nlp_loaded \in BOOLEAN
    /\ pc = "idle"
    /\ file_path = <<>>
    /\ enhance = FALSE
    /\ file_type = "unknown"
    /\ img = NoImage
    /\ pdf = NoPdf
    /\ handled = NoPair
    /\ text = <<>>
    /\ confidence = RZero
    /\ calls = <<>>
    /\ direct = NoDirect
    /\ procs = [p \in Procs |-> NoProc]
    /\ steps = NoSteps

(***************************************************************************)
(* TextExtractionService.extract_text, one action per stage it sequences.  *)
(***************************************************************************)
\* lines 51-61: classify the file and dispatch, or return the sentinel
ExtractTextCall(path, enh) ==
    /\ Idle
    /\ file_path' = path
    /\ enhance' = enh
    /\ file_type' = _determine_file_type(path)
    /\ img' = NoImage
    /\ pdf' = NoPdf
    /\ handled' = NoPair
    /\ calls' = <<>>
    /\ direct' = NoDirect
    /\ confidence' = RZero
    /\ IF file_type' \in file_handlers
       THEN /\ pc' = IF file_type' = "pdf" THEN "pdf_open" ELSE "load"
            /\ text' = <<>>
       ELSE /\ pc' = "done"
            /\ text' = UnsupportedFileType
    /\ UNCHANGED <<steps, procs, ml_model, nlp_loaded>>

\* the except clause of _handle_image
HandleImageFailed ==
    /\ handled' = <<ImageProcessingFailed, RZero>>
    /\ text' = ImageProcessingFailed
    /\ confidence' = RZero
    /\ pc' = "enhance"
    /\ img' = [NoImage EXCEPT !.stage = "failed"]

\* _handle_image: Image.open(file_path)
LoadImage ==
    /\ pc = "load"
    /\ calls' = Append(calls, "load")
    /\ \E raises \in BOOLEAN, blur \in QualityBlur, contrast \in QualityContrast :
          IF raises THEN HandleImageFailed
          ELSE /\ img' = [img EXCEPT !.stage = "loaded", !.blur = blur,
                                     !.contrast = contrast]
               /\ pc' = "preprocess"
               /\ UNCHANGED <<handled, text, confidence>>
    /\ UNCHANGED <<steps, procs, ml_model, nlp_loaded, file_path, enhance, file_type, pdf, direct>>

\* _handle_image: self.preprocessor.preprocess(image); the image it returns
\* has the contours deskew will find
Preprocess ==
    /\ pc = "preprocess"
    /\ calls' = Append(calls, "preprocess")
    /\ \E raises \in BOOLEAN, contours \in SeqsUpTo(Contours, MaxContours) :
          IF raises THEN HandleImageFailed
          ELSE /\ img' = [img EXCEPT
                     !.stage = "preprocessed",
                     !.enhance_level =
                         _determine_enhancement_level(img.blur, img.contrast),
                     !.contours = contours]
               /\ pc' = "deskew"
               /\ UNCHANGED <<handled, text, confidence>>
    /\ UNCHANGED <<steps, procs, ml_model, nlp_loaded, file_path, enhance, file_type, pdf, direct>>

\* _handle_image: self.preprocessor.deskew(preprocessed).  The conversions
\* before the try may raise; a failure inside the try returns the image as given.
\* Of the image handed on, only the rotation applied to it is kept.
Deskew ==
    /\ pc = "deskew"
    /\ calls' = Append(calls, "deskew")
    /\ \E outcome \in {"rotated", "fallback", "raises"} :
          CASE outcome = "raises" -> HandleImageFailed
            [] outcome = "fallback" ->
                 /\ img' = [NoImage EXCEPT !.stage = "deskewed"]
                 /\ pc' = "recognise"
                 /\ UNCHANGED <<handled, text, confidence>>
            [] outcome = "rotated" ->
                 /\ img' = [NoImage EXCEPT !.stage = "deskewed",
                                           !.median_angle = median_angle(img.contours),
                                           !.rotated = TRUE]
                 /\ pc' = "recognise"
                 /\ UNCHANGED <<handled, text, confidence>>
    /\ UNCHANGED <<steps, procs, ml_model, nlp_loaded, file_path, enhance, file_type, pdf, direct>>

\* _handle_image: self.ocr_model.extract_text_from_image(deskewed, lang), and
\* the return; img keeps the backend's answer until extract_text moves on
Recognise ==
    /\ pc = "recognise"
    /\ calls' = Append(calls, "recognise")
    /\ \/ HandleImageFailed
       \/ \E data \in SeqsUpTo(WordTokens, MaxWords) :
             LET r == extract_text_from_image(data)
             IN  /\ img' = [NoImage EXCEPT !.stage = "recognised", !.data = data]
                 /\ handled' = r
                 /\ text' = r[1]
                 /\ confidence' = r[2]
                 /\ pc' = "enhance"
    /\ UNCHANGED <<steps, procs, ml_model, nlp_loaded, file_path, enhance, file_type, pdf, direct>>

\* extract_text_from_pdf: pdfplumber.open(pdf_path); nothing catches what it raises
PdfOpen ==
    /\ pc = "pdf_open"
    /\ calls' = Append(calls, "pdf_open")
    /\ \E raises \in BOOLEAN, n \in 0..MaxPages :
          IF raises
          THEN pc' = "raised" /\ pdf' = pdf
          ELSE /\ pdf' = [NoPdf EXCEPT !.open = TRUE, !.n_pages = n]
               /\ pc' = "pdf_page"
    /\ UNCHANGED <<steps, procs, ml_model, nlp_loaded, file_path, enhance, file_type, img,
                   handled, text, confidence, direct>>

\* extract_text_from_pdf: one iteration of the loop over pdf.pages
PdfPage ==
    /\ pc = "pdf_page"
    /\ Len(pdf.pages) < pdf.n_pages
    /\ \E raises \in BOOLEAN, native \in NativeTexts :
       \E data \in IF HasNativeText(native) THEN {<<>>}
                   ELSE SeqsUpTo(PageTokens, MaxPageWords) :
          IF raises
          THEN /\ pc' = "raised"
               /\ pdf' = pdf
               /\ calls' = Append(calls, "pdf_page")
          ELSE LET r == pdf_page_result(native, data)
                   recognised == ~HasNativeText(native)
               IN  /\ pdf' = [pdf EXCEPT
                         !.pages = Append(@, [native |-> native, data |-> data,
                                              recognised |-> recognised]),
                         !.extracted_texts = Append(@, r[1]),
                         !.confidence_scores = Append(@, r[2])]
                   /\ calls' = calls \o <<"pdf_page">>
                                 \o IF recognised THEN <<"recognise">> ELSE <<>>
                   /\ pc' = "pdf_page"
    /\ UNCHANGED <<steps, procs, ml_model, nlp_loaded, file_path, enhance, file_type, img,
                   handled, text, confidence, direct>>

\* extract_text_from_pdf: join the texts, average the confidences, return
PdfCombine ==
    /\ pc = "pdf_page"
    /\ Len(pdf.pages) = pdf.n_pages
    /\ LET r == pdf_combine(pdf.extracted_texts, pdf.confidence_scores)
       IN  /\ handled' = r
           /\ text' = r[1]
           /\ confidence' = r[2]
    /\ pc' = "enhance"
    /\ UNCHANGED <<steps, procs, ml_model, nlp_loaded, file_path, enhance, file_type, img, pdf,
                   calls, direct>>

\* lines 63-65: if enhance and self.ml_model: enhance_text(text, confidence)
Enhance ==
    /\ pc = "enhance"
    /\ \E ml_raises \in BOOLEAN :
          IF enhance /\ ml_model.present
          THEN LET r == enhance_text(text, confidence, ml_model.initialized, ml_raises)
               IN  /\ text' = r[1]
                   /\ confidence' = r[2]
                   /\ calls' = Append(calls, "enhance_text")
          ELSE UNCHANGED <<text, confidence, calls>>
    /\ pc' = "normalize"
    /\ img' = NoImage
    /\ pdf' = NoPdf
    /\ UNCHANGED <<steps, procs, ml_model, nlp_loaded, file_path, enhance, file_type, handled,
                   direct>>

\* lines 67-73: self.nlp_processor.process_text(text), and the return
Normalize ==
    /\ pc = "normalize"
    /\ \E nlp_raises \in BOOLEAN :
          text' = process_text(text, nlp_loaded, nlp_raises)
    /\ calls' = Append(calls, "process_text")
    /\ pc' = "done"
    /\ UNCHANGED <<steps, procs, ml_model, nlp_loaded, file_path, enhance, file_type, img, pdf,
                   handled, confidence, direct>>

(***************************************************************************)
(* MLEnhancementModel.enhance_text called directly, on fresh arguments or  *)
(* on the pair the previous call returned.                                 *)
(***************************************************************************)
DirectEnhance(t, c, initialized, ml_raises, n) ==
    LET r == enhance_text(t, c, initialized, ml_raises)
    IN  /\ direct' = [n_calls |-> n, text |-> t, confidence |-> c,
                      initialized |-> initialized, ml_raises |-> ml_raises,
                      ml_called |-> r[3]]
        /\ text' = r[1]
        /\ confidence' = r[2]
        /\ pc' = "direct"
        /\ file_path' = <<>>
        /\ enhance' = FALSE
        /\ file_type' = "unknown"
        /\ img' = NoImage
        /\ pdf' = NoPdf
        /\ handled' = NoPair
        /\ calls' = <<>>
        /\ UNCHANGED <<steps, procs, ml_model, nlp_loaded>>

EnhanceTextCall(t, c) ==
    /\ Idle
    /\ \E initialized \in BOOLEAN, ml_raises \in BOOLEAN :
          DirectEnhance(t, c, initialized, ml_raises, 1)

EnhanceTextAgain ==
    /\ pc = "direct"
    /\ direct.n_calls < MaxCalls
    /\ \E initialized \in BOOLEAN, ml_raises \in BOOLEAN :
          DirectEnhance(text, confidence, initialized, ml_raises, direct.n_calls + 1)

\* after a first direct call, enhance_text on the same text with another
\* confidence, the model and its ML step behaving as in the first call; steps
\* keeps the confidence the first call was given and the one it returned
EnhanceTextCompare(c) ==
    /\ pc = "direct"
    /\ direct.n_calls = 1
    /\ LET r == enhance_text(direct.text, c, direct.initialized, direct.ml_raises)
       IN  /\ direct' = [direct EXCEPT !.n_calls = 2, !.confidence = c,
                                       !.ml_called = r[3]]
           /\ text' = r[1]
           /\ confidence' = r[2]
    /\ steps' = [text |-> direct.text, trace |-> <<>>, again |-> TRUE,
                 first |-> <<direct.confidence, confidence>>]
    /\ pc' = "compare"
    /\ UNCHANGED <<procs, ml_model, nlp_loaded, file_path, enhance, file_type, img,
                   pdf, handled, calls>>

(***************************************************************************)
(* MLEnhancementModel._apply_rule_based_corrections called directly, and    *)
(* called once more on the same argument.                                   *)
(***************************************************************************)
RuleCorrections(t, again) ==
    /\ steps' = [text |-> t, trace |-> correction_steps(t), again |-> again]
    /\ text' = _apply_rule_based_corrections(t)
    /\ pc' = "rules"
    /\ UNCHANGED <<procs, ml_model, nlp_loaded, file_path, enhance, file_type, img,
                   pdf, handled, confidence, calls, direct>>

RuleCorrectionsCall(t) ==
    /\ Idle
    /\ RuleCorrections(t, FALSE)

RuleCorrectionsAgain ==
    /\ pc = "rules"
    /\ ~steps.again
    /\ RuleCorrections(steps.text, TRUE)

(***************************************************************************)
(* NLPProcessor.process_text called directly.                              *)
(***************************************************************************)
ProcessTextCall(t, raise_after) ==
    /\ Idle
    /\ raise_after >= 0 =>
          (nlp_loaded /\ ~IsBlank(t) /\ raise_after <= Len(doc_ents(_fix_patterns(t))))
    /\ LET trace == process_text_steps(t, nlp_loaded, raise_after)
       IN  /\ steps' = [text |-> t, trace |-> trace, again |-> FALSE,
                        raise_after |-> raise_after]
           /\ text' = trace[Len(trace)]
    /\ pc' = "nlp"
    /\ UNCHANGED <<procs, ml_model, nlp_loaded, file_path, enhance, file_type, img,
                   pdf, handled, confidence, calls, direct>>

(***************************************************************************)
(* TranslationModel.translate called directly or through                    *)
(* TranslationService.translate, on a model built with or without either     *)
(* client.                                                                   *)
(***************************************************************************)
TranslateCall(t, source_lang, target_lang, deepl_client, google_client, env, via_service) ==
    /\ Idle
    /\ LET r == IF via_service
                THEN service_translate(t, source_lang, target_lang, deepl_client,
                                       google_client, env)
                ELSE translate(t, source_lang, target_lang, deepl_client,
                               google_client, env)
       IN  /\ steps' = [text |-> t, trace |-> r.called, again |-> FALSE,
                        source_lang |-> source_lang, target_lang |-> target_lang,
                        deepl_client |-> deepl_client,
                        google_client |-> google_client, env |-> env,
                        via_service |-> via_service]
           /\ text' = r.text
    /\ pc' = "translate"
    /\ UNCHANGED <<procs, ml_model, nlp_loaded, file_path, enhance, file_type, img,
                   pdf, handled, confidence, calls, direct>>

\* The caller takes the result (or the exception); the call's locals are gone.
Return ==
    /\ pc \in {"done", "raised", "direct", "rules", "nlp", "compare", "translate"}
    /\ pc' = "idle"
    /\ file_path' = <<>>
    /\ enhance' = FALSE
    /\ file_type' = "unknown"
    /\ img' = NoImage
    /\ pdf' = NoPdf
    /\ handled' = NoPair
    /\ text' = <<>>
    /\ confidence' = RZero
    /\ calls' = <<>>
    /\ direct' = NoDirect
    /\ steps' = NoSteps
    /\ UNCHANGED <<procs, ml_model, nlp_loaded>>

Next ==
    \/ Idle /\ \E path \in FilePaths, enh \in BOOLEAN : ExtractTextCall(path, enh)
    \/ LoadImage
    \/ Preprocess
    \/ Deskew
    \/ Recognise
    \/ PdfOpen
    \/ PdfPage
    \/ PdfCombine
    \/ Enhance
    \/ Normalize
    \/ Idle /\ \E t \in SampleTexts, c \in SampleConfidences : EnhanceTextCall(t, c)
    \/ EnhanceTextAgain
    \/ pc = "direct" /\ \E c \in SampleConfidences : EnhanceTextCompare(c)
    \/ Idle /\ \E t \in RuleTexts : RuleCorrectionsCall(t)
    \/ RuleCorrectionsAgain
    \/ Idle /\ \E t \in NlpTexts, raise_after \in -1..Len(KnownEntities) :
                   ProcessTextCall(t, raise_after)
    \/ Idle /\ \E t \in TranslateTexts, source_lang \in SourceLangs,
                   target_lang \in TargetLangs, deepl_client \in BOOLEAN,
                   google_client \in BOOLEAN, env \in TranslateEnvs,
                   via_service \in BOOLEAN :
          TranslateCall(t, source_lang, target_lang, deepl_client, google_client, env,
                        via_service)
    \/ Return

Spec == Init /\ [][Next]_vars

(***************************************************************************)
(* Several requests at once: each caller runs extract_text on the one      *)
(* TextExtractionService that app.py builds, a stage at a time, with its    *)
(* own locals; the stages read the shared objects.                          *)
(***************************************************************************)
InFlight(q) == procs[q].pc \in {"handle", "enhance", "normalize"}

\* enhance_text that drops the loaded model when its ML step has failed
enhance_text_self_disable_on_failure(model, ml_failed) ==
    IF ml_failed THEN [model EXCEPT !.initialized = FALSE] ELSE model

\* the MLEnhancementModel after a call of enhance_text: no attribute is assigned
enhance_text_self(model, ml_failed) == model

\* lines 51-61 for caller p
ConcurrentExtractTextCall(p, path, enh) ==
    /\ procs[p].pc = "idle"
    /\ procs' = [procs EXCEPT ![p] =
          [NoProc EXCEPT
             !.file_path = path,
             !.enhance = enh,
             !.seen = [ml_model |-> ml_model, nlp_loaded |-> nlp_loaded],
             !.pc = IF _determine_file_type(path) \in file_handlers
                    THEN "handle" ELSE "done",
             !.text = IF _determine_file_type(path) \in file_handlers
                      THEN <<>> ELSE UnsupportedFileType]]
    /\ UNCHANGED <<ml_model, nlp_loaded, sequential_vars>>

\* line 58 for caller p: the handler returns a recognition, or fails: the image
\* handler then returns its sentinel, the PDF handler raises
ConcurrentHandle(p) ==
    /\ procs[p].pc = "handle"
    /\ LET kind == _determine_file_type(procs[p].file_path)
       IN  \E raises \in BOOLEAN, answer \in HandlerAnswers(kind) :
              IF raises /\ kind = "pdf"
              THEN procs' = [procs EXCEPT ![p].pc = "raised"]
              ELSE LET r == IF raises THEN <<ImageProcessingFailed, RZero>>
                                      ELSE answer
                   IN  procs' = [procs EXCEPT ![p].pc = "enhance",
                                              ![p].handled = r,
                                              ![p].text = r[1],
                                              ![p].confidence = r[2]]
    /\ UNCHANGED <<ml_model, nlp_loaded, sequential_vars>>

\* lines 63-65 for caller p
ConcurrentEnhance(p) ==
    /\ procs[p].pc = "enhance"
    /\ \E ml_raises \in BOOLEAN :
          IF procs[p].enhance /\ ml_model.present
          THEN LET r == enhance_text(procs[p].text, procs[p].confidence,
                                     ml_model.initialized, ml_raises)
               IN  /\ procs' = [procs EXCEPT ![p].pc = "normalize",
                                              ![p].text = r[1],
                                              ![p].confidence = r[2],
                                              ![p].ml_raises = r[3] /\ ml_raises]
                   /\ ml_model' = enhance_text_self(ml_model, r[3] /\ ml_raises)
          ELSE /\ procs' = [procs EXCEPT ![p].pc = "normalize"]
               /\ ml_model' = ml_model
    /\ UNCHANGED <<nlp_loaded, sequential_vars>>

\* lines 67-73 for caller p
ConcurrentNormalize(p) ==
    /\ procs[p].pc = "normalize"
    /\ \E nlp_raises \in BOOLEAN :
          procs' = [procs EXCEPT
             ![p].pc = "done",
             ![p].overlapped = \E q \in Procs \ {p} : InFlight(q),
             ![p].text = process_text(procs[p].text, nlp_loaded, nlp_raises),
             ![p].nlp_raises = nlp_loaded /\ nlp_raises /\ ~IsBlank(procs[p].text)]
    /\ UNCHANGED <<ml_model, nlp_loaded, sequential_vars>>

\* caller p takes its result, or the exception
ConcurrentReturn(p) ==
    /\ procs[p].pc \in {"done", "raised"}
    /\ procs' = [procs EXCEPT ![p] = NoProc]
    /\ UNCHANGED <<ml_model, nlp_loaded, sequential_vars>>

NextConcurrent ==
    \E p \in Procs :
       \/ \E path \in ConcurrentPaths : ConcurrentExtractTextCall(p, path, TRUE)
       \/ ConcurrentHandle(p)
       \/ ConcurrentEnhance(p)
       \/ ConcurrentNormalize(p)
       \/ ConcurrentReturn(p)

SpecConcurrent == Init /\ [][NextConcurrent]_vars

(***************************************************************************)
(* Properties.                                                             *)
(***************************************************************************)
InUnitInterval(c) == RLeq(RZero, c) /\ RLeq(c, ROne)

NonBlank(s) == \E i \in DOMAIN s : s[i] \notin Whitespace

\* where the i-th of parts starts in their join by a separator of length n
RECURSIVE JoinOffset(_, _, _)
JoinOffset(parts, n, i) ==
    IF i = 1 THEN 0
    ELSE JoinOffset(parts, n, i - 1) + Len(parts[i - 1]) + n

\* txt is parts[1], sep, parts[2], sep, ..., parts[n]
IsJoinOf(txt, parts, sep) ==
    IF parts = <<>> THEN txt = <<>>
    ELSE LET n == Len(parts)
             off(i) == JoinOffset(parts, Len(sep), i)
         IN  /\ Len(txt) = off(n) + Len(parts[n])
             /\ \A i \in 1..n :
                   SubSeq(txt, off(i) + 1, off(i) + Len(parts[i])) = parts[i]
             /\ \A i \in 1..(n - 1) :
                   SubSeq(txt, off(i) + Len(parts[i]) + 1, off(i + 1)) = sep

RECURSIVE SumConf(_)
SumConf(data) == IF data = <<>> THEN 0 ELSE Head(data).conf + SumConf(Tail(data))

\* C1: after any sequence of direct enhance_text calls that started from a
\* confidence in [0,1], whatever the text, the initialized flag and the outcome
\* of the ML step in each call, the returned confidence is in [0,1].
C1_ConfidenceInUnitInterval ==
    pc = "direct" => InUnitInterval(confidence)

\* a later call of a sequence on non-blank text whose boost was cut at 1.0
C1_Witness ==
    /\ pc = "direct"
    /\ direct.n_calls >= 2
    /\ NonBlank(direct.text)
    /\ RLess(direct.confidence, ROne)
    /\ confidence = ROne

\* C2: extract_text returns a confidence in [0,1] for every file kind, either
\* value of enhance, and every recognition answer with confidences in 0..100 or -1.
C2_ExtractConfidenceInUnitInterval ==
    pc \in {"enhance", "normalize", "done"} => InUnitInterval(confidence)

\* an image recognised with full confidence, enhanced, and returned
C2_Witness ==
    /\ pc = "done"
    /\ file_type = "image"
    /\ enhance
    /\ calls = <<"load", "preprocess", "deskew", "recognise", "enhance_text",
                 "process_text">>
    /\ handled[2] = ROne
    /\ confidence = ROne

\* C3: the tier is 'low' exactly when blur > 100 and contrast > 50, otherwise
\* 'medium' exactly when blur > 50 and contrast > 30, otherwise 'high'; blur = 100
\* with contrast = 50 gives 'medium'.
C3_TierSelection ==
    img.stage = "preprocessed" =>
        LET low == img.blur > 100 /\ img.contrast > 50
            medium == ~low /\ img.blur > 50 /\ img.contrast > 30
        IN  /\ img.enhance_level \in {"low", "medium", "high"}
            /\ (img.enhance_level = "low") <=> low
            /\ (img.enhance_level = "medium") <=> medium
            /\ (img.enhance_level = "high") <=> (~low /\ ~medium)
            /\ (img.blur = 100 /\ img.contrast = 50) => img.enhance_level = "medium"

C3_Witness ==
    /\ img.stage = "preprocessed"
    /\ img.blur = 100
    /\ img.contrast = 50
    /\ img.enhance_level = "medium"

\* C4: blank text passes through unchanged: a direct enhance_text call on blank
\* text returns its arguments, and an extraction whose handler returned blank
\* text returns that text and that confidence, enhance set or not.
C4_BlankPassesThrough ==
    /\ (pc = "direct" /\ ~NonBlank(direct.text)) =>
           (text = direct.text /\ confidence = direct.confidence)
    /\ (pc \in {"normalize", "done"} /\ handled # NoPair /\ ~NonBlank(handled[1])) =>
           (text = handled[1] /\ confidence = handled[2])

\* a scanned PDF of two empty pages, enhanced and normalised
C4_Witness ==
    /\ pc = "done"
    /\ handled[1] = <<"\n", "\n">>
    /\ calls = <<"pdf_open", "pdf_page", "recognise", "pdf_page", "recognise",
                 "enhance_text", "process_text">>
    /\ text = <<"\n", "\n">>

SupportedExtensions == ImageExtensions \cup {<<".", "p", "d", "f">>}

\* C5: a call on a path whose lower-cased extension is neither .pdf nor an image
\* extension has returned ("Unsupported file type", 0.0) without invoking any
\* collaborator.
C5_UnsupportedFileType ==
    (pc \notin {"idle", "direct", "rules", "nlp", "compare", "translate"}
        /\ str_lower(splitext_ext(file_path)) \notin SupportedExtensions) =>
            /\ pc = "done"
            /\ text = UnsupportedFileType
            /\ confidence = RZero
            /\ calls = <<>>
            /\ img = NoImage
            /\ pdf = NoPdf

C5_Witness ==
    /\ pc = "done"
    /\ file_path = <<"e", ".", "d", "o", "c", "x">>
    /\ text = UnsupportedFileType
    /\ confidence = RZero

C7_PdfFailureNeverPropagates ==
    file_type = "pdf" => pc # "raised"

NativeNonBlank(native) == native # NoText /\ NonBlank(native)

\* C8: a page with a non-blank native text contributes that text with confidence
\* 0.95 and is not recognised; a page is recognised exactly when its native text
\* is missing or blank, and then contributes what recognition returned.
C8_NativeTextPages ==
    pdf.open =>
        /\ \A i \in DOMAIN pdf.pages :
              LET p == pdf.pages[i]
              IN  /\ p.recognised <=> ~NativeNonBlank(p.native)
                  /\ NativeNonBlank(p.native) =>
                        /\ pdf.extracted_texts[i] = p.native
                        /\ pdf.confidence_scores[i] = <<19, 20>>
                  /\ ~NativeNonBlank(p.native) =>
                        <<pdf.extracted_texts[i], pdf.confidence_scores[i]>>
                            = extract_text_from_image(p.data)
        /\ Len(SelectSeq(calls, LAMBDA c : c = "recognise"))
               = Len(SelectSeq(pdf.pages, LAMBDA p : p.recognised))

\* a native page followed by a blank-layer page that was recognised
C8_Witness ==
    /\ pc = "enhance"
    /\ pdf.n_pages = 2
    /\ pdf.pages[1].native = <<"H", "i">>
    /\ pdf.confidence_scores[1] = <<19, 20>>
    /\ pdf.pages[2].native = <<" ">>
    /\ pdf.pages[2].recognised
    /\ pdf.extracted_texts[2] = <<"S", "c", "a", "n">>

\* C9: one text and one confidence are collected per page; the handler returns
\* the page texts in page order joined by "\n\n" and the mean of the page
\* confidences, ("", 0.0) for a PDF without pages.
C9_PdfJoinAndMean ==
    pdf.open =>
        /\ Len(pdf.extracted_texts) = Len(pdf.pages)
        /\ Len(pdf.confidence_scores) = Len(pdf.pages)
        /\ pc = "enhance" =>
              /\ Len(pdf.pages) = pdf.n_pages
              /\ handled = <<text, confidence>>
              /\ IsJoinOf(text, pdf.extracted_texts, <<"\n", "\n">>)
              /\ IF pdf.n_pages = 0
                 THEN text = <<>> /\ confidence = RZero
                 ELSE RScale(confidence, pdf.n_pages, 1) = RSum(pdf.confidence_scores)

\* a native page (0.95) and a recognised page (0.60): mean 0.775
C9_Witness ==
    /\ pc = "enhance"
    /\ pdf.n_pages = 2
    /\ pdf.confidence_scores = << <<19, 20>>, <<3, 5>> >>
    /\ text = <<"H", "i", "\n", "\n", "S", "c", "a", "n">>
    /\ confidence = <<31, 40>>

\* C10: extract_text_from_image returns the non-blank words in order joined by
\* single spaces, and mean(conf of the non-blank words with conf # -1) / 100, or
\* 0.0 without such a word; [("Hello",90), ("",-1), ("World",80)] gives
\* ("Hello World", 0.85).
C10_ImageTextAndConfidence ==
    img.stage = "recognised" =>
        LET words == SelectSeq(img.data, LAMBDA d : NonBlank(d.text))
            valid == SelectSeq(words, LAMBDA d : d.conf # -1)
        IN  /\ handled = <<text, confidence>>
            /\ IsJoinOf(text, [i \in DOMAIN words |-> words[i].text], <<" ">>)
            /\ IF valid = <<>> THEN confidence = RZero
               ELSE confidence[1] * 100 * Len(valid) = SumConf(valid) * confidence[2]
            /\ img.data = << [text |-> <<"H", "e", "l", "l", "o">>, conf |-> 90],
                             [text |-> <<>>, conf |-> -1],
                             [text |-> <<"W", "o", "r", "l", "d">>, conf |-> 80] >>
                  => (text = <<"H", "e", "l", "l", "o", " ", "W", "o", "r", "l", "d">> /\ confidence = <<17, 20>>)

C10_Witness ==
    /\ img.stage = "recognised"
    /\ img.data = << [text |-> <<"H", "e", "l", "l", "o">>, conf |-> 90],
                     [text |-> <<>>, conf |-> -1],
                     [text |-> <<"W", "o", "r", "l", "d">>, conf |-> 80] >>
    /\ text = <<"H", "e", "l", "l", "o", " ", "W", "o", "r", "l", "d">>
    /\ confidence = <<17, 20>>


\* what the deterministic passes make of the fixed input
FixedOutput == <<"I", " ", "5", " ", "H", "e", "l", "l", "o", ".", " ", "W", "o", "r", "l", "d">>

C12_MLFailureKeepsConfidence ==
    (pc = "direct" /\ direct.ml_called /\ direct.ml_raises) =>
        /\ text = _apply_rule_based_corrections(direct.text)
        /\ direct.text = FixedInput => text = FixedOutput
        /\ confidence = direct.confidence

\* the ML step raised on "l5Hello.World" at confidence 0.5
C12_Witness ==
    /\ pc = "direct"
    /\ direct.ml_called
    /\ direct.ml_raises
    /\ direct.text = FixedInput
    /\ direct.confidence = Rat(1, 2)
    /\ text = FixedOutput
    /\ confidence = Rat(1, 2)

\* C13 as stated: a model that was never loaded returns the text and the
\* confidence it was given, for every input.
C13_UninitializedIsIdentity ==
    (pc = "direct" /\ ~direct.initialized) =>
        (text = direct.text /\ confidence = direct.confidence)

\* C13, amended: a model that was never loaded returns normally and never
\* calls _apply_ml_corrections; blank text comes back with its confidence
\* unchanged, non-blank text comes back rule-corrected with min(1, c * 1.05).
C13_UninitializedRuleFallback ==
    (pc = "direct" /\ ~direct.initialized) =>
        /\ ~direct.ml_called
        /\ IF IsBlank(direct.text)
           THEN text = direct.text /\ confidence = direct.confidence
           ELSE /\ text = _apply_rule_based_corrections(direct.text)
                /\ confidence = RMin(ROne, RScale(direct.confidence, 105, 100))

\* a never-loaded model given "0`" at 0.5 returns "O'" at 0.525
C13_Witness ==
    /\ pc = "direct"
    /\ ~direct.initialized
    /\ direct.ml_raises
    /\ direct.text = <<"0", Backtick>>
    /\ direct.confidence = Rat(1, 2)
    /\ text = <<"O", Apostrophe>>
    /\ confidence = Rat(21, 40)


\* the stages of _handle_image in the order the claim gives them
ImageStages == <<"load", "preprocess", "deskew", "recognise">>
StagePosition(stage) == CHOOSE k \in 1..Len(ImageStages) : ImageStages[k] = stage
Count(s, x) == Cardinality({ k \in 1..Len(s) : s[k] = x })
\* the text-correction stage, run only if the flag is set and a model exists
CorrectionStage == IF enhance /\ ml_model.present THEN <<"enhance_text">> ELSE <<>>

\* the stages run so far by a call on an image are an initial part of the fixed
\* order (all four handler stages unless one of them failed), then the
\* correction stage if it applies, then normalization
ImageStageOrder ==
    file_type = "image" =>
        CASE pc \in {"load", "preprocess", "deskew", "recognise"} ->
                 calls = SubSeq(ImageStages, 1, StagePosition(pc) - 1)
          [] pc \in {"enhance", "normalize", "done"} ->
                 \E k \in 1..Len(ImageStages) :
                    /\ handled[1] # ImageProcessingFailed => k = Len(ImageStages)
                    /\ calls = SubSeq(ImageStages, 1, k)
                               \o (IF pc = "enhance" THEN <<>> ELSE CorrectionStage)
                               \o (IF pc = "done" THEN <<"process_text">> ELSE <<>>)
          [] OTHER -> FALSE

\* C14: in a call on an image the stages run in the order load, quality
\* assessment and enhancement (with its one tier decision), deskew,
\* recognition, text correction only if the enhance flag is set and a model
\* exists, normalization, each at most once; and every extraction of a
\* supported file kind, once over, has run normalization exactly once, last.
C14_StageOrderAndNormalization ==
    /\ ImageStageOrder
    /\ (file_type \in file_handlers /\ pc \in {"done", "raised"}) =>
          /\ Count(calls, "process_text") = 1
          /\ calls[Len(calls)] = "process_text"


\* what the call of caller p returns when it runs alone on the service as it was
\* when the call began, given the same answers of the handler and the libraries
AloneResult(p) ==
    LET c == procs[p]
        e == IF c.enhance /\ c.seen.ml_model.present
             THEN enhance_text(c.handled[1], c.handled[2],
                               c.seen.ml_model.initialized, c.ml_raises)
             ELSE c.handled
    IN  <<process_text(e[1], c.seen.nlp_loaded, c.nlp_raises), e[2]>>

\* C15: under every interleaving of the callers' stages, while a call is in
\* progress or awaits its return the shared enhancement model and NLP processor
\* are as they were when it began, and the pair a call returns is the pair it
\* returns when run alone.
C15_NoInterference ==
    \A p \in Procs :
       procs[p].pc # "idle" =>
          /\ ml_model = procs[p].seen.ml_model
          /\ nlp_loaded = procs[p].seen.nlp_loaded
          /\ (procs[p].pc = "done" /\ procs[p].file_path # <<>>
                /\ _determine_file_type(procs[p].file_path) \in file_handlers) =>
                <<procs[p].text, procs[p].confidence>> = AloneResult(p)

\* two calls on an initialized model are over, the first finished while the
\* second was in flight: the ML step raised in the first, and succeeded in the
\* second, which returns 0.575 for 0.5
C15_Witness ==
    /\ ml_model.initialized
    /\ procs[1].pc = "done"
    /\ procs[1].overlapped
    /\ procs[1].ml_raises
    /\ procs[2].pc = "done"
    /\ procs[2].enhance
    /\ ~procs[2].ml_raises
    /\ procs[2].handled[2] = Rat(1, 2)
    /\ procs[2].confidence = Rat(575, 1000)


\* the values "l5Hello.World" takes, pass by pass
FixedTrace ==
    << <<"l", "5", "H", "e", "l", "l", "o", ".", "W", "o", "r", "l", "d">>,
       <<"l", "5", " ", "H", "e", "l", "l", "o", ".", "W", "o", "r", "l", "d">>,
       <<"l", " ", "5", " ", "H", "e", "l", "l", "o", ".", "W", "o", "r", "l", "d">>,
       <<"I", " ", "5", " ", "H", "e", "l", "l", "o", ".", "W", "o", "r", "l", "d">>,
       <<"I", " ", "5", " ", "H", "e", "l", "l", "o", ".", " ", "W", "o", "r", "l", "d">>,
       <<"I", " ", "5", " ", "H", "e", "l", "l", "o", ".", " ", "W", "o", "r", "l", "d">>,
       <<"I", " ", "5", " ", "H", "e", "l", "l", "o", ".", " ", "W", "o", "r", "l", "d">> >>

\* C16: a call of _apply_rule_based_corrections, whatever calls came before it
\* and whether it is the first or the second run on its argument, has applied
\* digit/letter spacing, letter/digit spacing, l-to-I, period spacing and
\* whitespace collapse in that order, each to the value the pass before it
\* left, then the glyph table, and returned the last value; on "l5Hello.World"
\* the values are "l5 Hello.World", "l 5 Hello.World", "I 5 Hello.World",
\* "I 5 Hello. World" (twice more unchanged), in the first run and the second.
C16_FixedOrderPasses ==
    pc = "rules" =>
        LET t == steps.trace
        IN  /\ Len(t) = 7
            /\ t[1] = steps.text
            /\ t[2] = sub_digit_letter(t[1])
            /\ t[3] = sub_letter_digit(t[2])
            /\ t[4] = sub_l_to_I(t[3])
            /\ t[5] = sub_merged_sentences(t[4])
            /\ t[6] = sub_spaces(t[5])
            /\ t[7] = char_replacements(t[6])
            /\ text = t[7]
            /\ steps.text = FixedInput => (t = FixedTrace /\ text = FixedOutput)

\* the second run on "l5Hello.World" has returned "I 5 Hello. World"
C16_Witness ==
    /\ pc = "rules"
    /\ steps.again
    /\ steps.text = FixedInput
    /\ steps.trace[2] = <<"l", "5", " ", "H", "e", "l", "l", "o", ".", "W", "o", "r", "l", "d">>
    /\ text = FixedOutput


\* C17: whenever deskew is the last stage a call on an image has run, the call
\* stands at recognition: a failure in deskew has not ended the image path with
\* the "Image processing failed" sentinel.
C17_DeskewFailureNonFatal ==
    (file_type = "image" /\ calls # <<>> /\ calls[Len(calls)] = "deskew") =>
        (pc = "recognise" /\ img.stage = "deskewed" /\ text # ImageProcessingFailed)

\* a period stands between two word characters of s
PeriodJoinsWords(s) ==
    \E i \in 2..(Len(s) - 1) :
       s[i] = "." /\ s[i - 1] \in WordChar /\ s[i + 1] \in WordChar

\* C18: the text _apply_rule_based_corrections returns has no period standing
\* immediately between two word characters, for every argument, "a.b.c" included.
C18_NoPeriodJoinsWords ==
    pc = "rules" => ~PeriodJoinsWords(text)


\* s[i] has a neighbour, before it or after it, that is not a lowercase letter
BesideNonLower(s, i) ==
    \/ i > 1 /\ s[i - 1] \notin AsciiLower
    \/ i < Len(s) /\ s[i + 1] \notin AsciiLower

\* s[i] is followed by a character that is not a lowercase letter
BeforeNonLower(s, i) == i < Len(s) /\ s[i + 1] \notin AsciiLower

\* C19 as stated: the l-to-I pass turns every "l" that has a neighbour, before
\* or after it, that is not a lowercase letter into "I", and changes nothing else.
C19_AdjacentEitherSide ==
    pc = "rules" =>
        LET old == steps.trace[3]
            new == steps.trace[4]
        IN  /\ Len(new) = Len(old)
            /\ \A i \in DOMAIN old :
                  new[i] = IF old[i] = "l" /\ BesideNonLower(old, i)
                           THEN "I" ELSE old[i]

\* C19, amended: the l-to-I pass turns every "l" that is immediately followed
\* by a character other than a lowercase letter a-z into "I", and changes
\* nothing else: an "l" that ends the text, or that is followed by a lowercase
\* letter, stays, whatever precedes it.
C19_FollowedByNonLower ==
    pc = "rules" =>
        LET old == steps.trace[3]
            new == steps.trace[4]
        IN  /\ Len(new) = Len(old)
            /\ \A i \in DOMAIN old :
                  new[i] = IF old[i] = "l" /\ BeforeNonLower(old, i)
                           THEN "I" ELSE old[i]

\* "l 5la l": the pass sees "l 5 la l" and changes only the first "l"
C19_Witness ==
    /\ pc = "rules"
    /\ steps.text = <<"l", " ", "5", "l", "a", " ", "l">>
    /\ steps.trace[3] = <<"l", " ", "5", " ", "l", "a", " ", "l">>
    /\ steps.trace[4] = <<"I", " ", "5", " ", "l", "a", " ", "l">>

\* the glyph table read as the claim reads it: '0' and the backtick only
GlyphsAsClaimed(s) ==
    [i \in DOMAIN s |-> IF s[i] = "0" THEN "O"
                        ELSE IF s[i] = Backtick THEN Apostrophe ELSE s[i]]

\* one pass over s, left to right, that makes the three substitutions
RECURSIVE GlyphPass(_)
GlyphPass(s) ==
    IF s = <<>> THEN s
    ELSE IF Len(s) >= 2 /\ s[1] = ACircumflex /\ s[2] = AcuteAccent
         THEN <<Apostrophe>> \o GlyphPass(From(s, 3))
         ELSE <<IF s[1] = "0" THEN "O"
                ELSE IF s[1] = Backtick THEN Apostrophe ELSE s[1]>>
              \o GlyphPass(Tail(s))

HasAcutePair(s) ==
    \E i \in 1..(Len(s) - 1) : s[i] = ACircumflex /\ s[i + 1] = AcuteAccent

IsolatedNewline(s, i) ==
    /\ s[i] = "\n"
    /\ (i = 1 \/ s[i - 1] # "\n")
    /\ (i = Len(s) \/ s[i + 1] # "\n")

\* s has k newlines in a row somewhere
HasNewlineRun(s, k) ==
    \E i \in 1..(Len(s) - k + 1) : \A j \in i..(i + k - 1) : s[j] = "\n"

\* C21: the text process_text returns for a non-blank argument has no newline
\* standing alone (each became a space), and when the argument has three or
\* more newlines in a row the returned text has a paragraph break of exactly
\* two newlines.
C21_ParagraphsFixed ==
    (pc = "nlp" /\ NonBlank(steps.text)) =>
        /\ \A i \in DOMAIN text : ~IsolatedNewline(text, i)
        /\ HasNewlineRun(steps.text, 3) =>
              (HasNewlineRun(text, 2) /\ ~HasNewlineRun(text, 3))

\* C22: a call of process_text on non-blank text whose processor has no
\* linguistic model, or whose entity pass raised (before any entity, or after
\* some were re-cased), returned normally: after the try processed_text is the
\* pattern-fixed text, and the value returned is its paragraph fix-up.
C22_EntityPassAllOrNothing ==
    (pc = "nlp" /\ NonBlank(steps.text) /\ (~nlp_loaded \/ steps.raise_after >= 0)) =>
        /\ steps.trace[4] = steps.trace[2]
        /\ steps.trace[2] = _fix_patterns(steps.text)
        /\ text = _fix_paragraphs(steps.trace[2])

\* the entity pass raised on "paris john smith" after it had re-cased "paris":
\* the text is returned as it was
C22_Witness ==
    /\ pc = "nlp"
    /\ nlp_loaded
    /\ steps.raise_after = 1
    /\ steps.text = <<"p", "a", "r", "i", "s", " ", "j", "o", "h", "n", " ", "s", "m", "i", "t", "h">>
    /\ steps.trace[3] = <<"P", "a", "r", "i", "s", " ", "j", "o", "h", "n", " ", "s", "m", "i", "t", "h">>
    /\ text = steps.text


\* xs in non-decreasing order
SortedSeq(xs) ==
    CHOOSE srt \in [DOMAIN xs -> Range(xs)] :
        /\ \A i \in DOMAIN xs : \A j \in DOMAIN xs : i <= j => srt[i] <= srt[j]
        /\ \A x \in Range(xs) :
              Cardinality({i \in DOMAIN xs : srt[i] = x})
                  = Cardinality({i \in DOMAIN xs : xs[i] = x})

\* the median of a non-empty list: its middle element in order, or the mean of
\* its two middle elements
MedianOf(xs) ==
    LET srt == SortedSeq(xs)
        n == Len(xs)
    IN  IF n % 2 = 1 THEN Rat(srt[(n + 1) \div 2], 1)
        ELSE Rat(srt[n \div 2] + srt[n \div 2 + 1], 2)

\* the angles the claim lets contribute: of the contours of area at least 100,
\* the rectangle angle, plus 90 when it is below -45
ContributedAngles(contours) ==
    LET kept == SelectSeq(contours, LAMBDA c : c.area >= 100)
    IN  [i \in DOMAIN kept |->
            IF kept[i].angle < -45 THEN kept[i].angle + 90 ELSE kept[i].angle]

ComparedCalls ==
    /\ pc = "compare"
    /\ direct.initialized
    /\ ~direct.ml_raises
    /\ RLeq(steps.first[1], direct.confidence)

\* C24 as stated: of two such calls, the one given the lower confidence does not
\* return the higher confidence, on whichever sides of 0.85 the two inputs lie.
C24_MonotoneAcrossGate ==
    ComparedCalls => RLeq(steps.first[2], confidence)

\* C24, amended: of two such calls whose input confidences lie on the same
\* side of 0.85, the one given the lower confidence does not return the higher
\* confidence; whatever the sides, the call given the higher confidence returns
\* at least that confidence, hence at least the other call's input.
C24_MonotoneWithinSide ==
    ComparedCalls =>
        /\ (RLess(steps.first[1], Rat(85, 100)) <=> RLess(direct.confidence, Rat(85, 100)))
              => RLeq(steps.first[2], confidence)
        /\ RLeq(direct.confidence, confidence)
        /\ RLeq(steps.first[1], confidence)

\* 0.84 came back as 0.966 and 0.85 as 0.8925
C24_Witness ==
    /\ ComparedCalls
    /\ NonBlank(steps.text)
    /\ steps.first = <<Rat(84, 100), Rat(966, 1000)>>
    /\ direct.confidence = Rat(85, 100)
    /\ confidence = Rat(8925, 10000)


\* the translation calls among the client calls of a translate call, in order
TranslationCalls ==
    SelectSeq(steps.trace, LAMBDA c : c \in {"deepl.translate_text", "google.translate"})

\* the source language translate works with: the one given, or the one
\* detected ("en" when the detection raises)
EffectiveSource ==
    IF steps.source_lang # "auto" THEN steps.source_lang
    ELSE IF steps.env.detect = "raises" THEN "en" ELSE steps.env.detect

\* the target codes language_mapping gives a DeepL code for, as the claim reads it
DeepLMapped == {"en", "es", "fr", "de", "it", "pt", "nl", "ru", "zh", "ja"}

\* C25: a translate call, direct or through the service, has returned
\* whatever the clients did.  On blank text, or when the source language (given
\* or detected) equals the target, it made no translation call and returned the
\* text.  Otherwise it called DeepL first, exactly when a DeepL client exists
\* and the target has a DeepL mapping, and Google after it, exactly when a
\* Google client exists and DeepL was not called or raised; it returned the
\* answer of the call that succeeded, and the text unchanged when none did.
C25_TranslateFallbackOrder ==
    pc = "translate" =>
        LET tr == TranslationCalls
            deepl_called == steps.deepl_client /\ steps.target_lang \in DeepLMapped
            deepl_ok == deepl_called /\ ~steps.env.deepl_raises
            google_called == steps.google_client /\ ~deepl_ok
            google_ok == google_called /\ ~steps.env.google_raises
        IN  IF IsBlank(steps.text)
            THEN steps.trace = <<>> /\ text = steps.text
            ELSE IF EffectiveSource = steps.target_lang
            THEN tr = <<>> /\ text = steps.text
            ELSE /\ tr = (IF deepl_called THEN <<"deepl.translate_text">> ELSE <<>>)
                         \o (IF google_called THEN <<"google.translate">> ELSE <<>>)
                 /\ deepl_ok => text[1] = "deepl"
                 /\ google_ok => text[1] = "google"
                 /\ (deepl_ok \/ google_ok) => SubSeq(text, 3, Len(text)) = steps.text
                 /\ ~(deepl_ok \/ google_ok) => text = steps.text

\* DeepL raised, Google then translated "Hi" from English to French
C25_Witness ==
    /\ pc = "translate"
    /\ steps.text = <<"H", "i">>
    /\ steps.source_lang = "en"
    /\ steps.target_lang = "fr"
    /\ steps.env.deepl_raises
    /\ steps.trace = <<"deepl.translate_text", "google.translate">>
    /\ text = <<"google", "fr", "H", "i">>

====
